---- MODULE Spec2Model ----
(***************************************************************************)
(* A model of app.py: process_table (the bank-statement table normaliser)  *)
(* and parse_bank_statements (the batch driver).                           *)
(*                                                                         *)
(* Text is modelled as a sequence of one-character strings, so that        *)
(* str(), lower(), strip(), join() and the `in` substring test are         *)
(* computed character by character, as Python computes them.  A missing    *)
(* value (pandas NaN) is the one-element sequence NaN, which is no text.    *)
(* A DataFrame is a record [columns, rows]: the column labels and the rows *)
(* of cells, in positional order.                                          *)
(***************************************************************************)
EXTENDS Integers, Sequences, FiniteSets, TLC

VARIABLES
    raw,              \* the DataFrame handed to process_table in this pass
    df,               \* process_table's local df
    pc,               \* process_table's position
    header_detected,  \* app.py:110
    header_row,       \* app.py:111
    result,           \* what process_table returned (None: isNone = TRUE)
    pass,             \* 1: a raw grid; 2: pass 1's own output fed back
    first,            \* what pass 1 returned
    pdf_files,        \* number of files glob returned, files are 1..pdf_files
    file_idx,         \* position of the for loop of app.py:28
    bpc,              \* the batch driver's position inside the loop body
    status,           \* per file: Found, Processing, Written, Skipped, Failed
    csv,              \* per file: the state of ./csv/<stem>.csv
    tables,           \* per file: len(tables) after extraction (app.py:33-38)
    table_i,          \* i of the enumerate loop of app.py:50
    all_data,         \* per file: len(all_data) (app.py:47, 61)
    handled           \* files for which the except clause of app.py:91 ran

tvars == <<raw, df, pc, header_detected, header_row, result, pass, first>>
bvars == <<pdf_files, file_idx, bpc, status, csv, tables, table_i, all_data, handled>>
vars == <<raw, df, pc, header_detected, header_row, result, pass, first,
          pdf_files, file_idx, bpc, status, csv, tables, table_i, all_data, handled>>

---------------------------------------------------------------------------
(* Bounds of the model *)

MaxRows == 3
MaxCols == 6
MaxFiles == 3
MaxTables == 2

---------------------------------------------------------------------------
(* Text *)

NaN == <<"NaN">>

Digits == <<"0", "1", "2", "3", "4", "5", "6", "7", "8", "9">>

RECURSIVE IntText(_)
IntText(n) ==
    IF n < 10 THEN <<Digits[n + 1]>>
    ELSE IntText(n \div 10) \o <<Digits[(n % 10) + 1]>>

UpperCase ==
    <<"A", "B", "C", "D", "E", "F", "G", "H", "I", "J", "K", "L", "M",
      "N", "O", "P", "Q", "R", "S", "T", "U", "V", "W", "X", "Y", "Z">>

LowerCase ==
    <<"a", "b", "c", "d", "e", "f", "g", "h", "i", "j", "k", "l", "m",
      "n", "o", "p", "q", "r", "s", "t", "u", "v", "w", "x", "y", "z">>

LowerChar(c) ==
    IF \E i \in 1..Len(UpperCase) : UpperCase[i] = c
    THEN LowerCase[CHOOSE i \in 1..Len(UpperCase) : UpperCase[i] = c]
    ELSE c

lower(s) == [i \in 1..Len(s) |-> LowerChar(s[i])]

IsSpace(c) == c \in {" ", "\n", "\t"}

RECURSIVE lstrip(_)
lstrip(s) ==
    IF s # <<>> /\ IsSpace(Head(s)) THEN lstrip(Tail(s)) ELSE s

RECURSIVE rstrip(_)
rstrip(s) ==
    IF s # <<>> /\ IsSpace(s[Len(s)]) THEN rstrip(SubSeq(s, 1, Len(s) - 1)) ELSE s

strip(s) == rstrip(lstrip(s))

\* str(x) of a cell, and Series.astype(str) on an object column: a missing
\* value becomes the text "nan"
nan_text == <<"n", "a", "n">>

str(c) == IF c = NaN THEN nan_text ELSE c

\* sep.join(text): Python iterates a str character by character
join(sep, s) ==
    IF s = <<>> THEN <<>>
    ELSE [i \in 1..(2 * Len(s) - 1) |->
             IF i % 2 = 1 THEN s[(i + 1) \div 2] ELSE sep]

\* needle in hay
Contains(needle, hay) ==
    \E i \in 0..(Len(hay) - Len(needle)) :
        \A j \in 1..Len(needle) : hay[i + j] = needle[j]

Spaces(n) == [i \in 1..n |-> " "]

Max(S) == CHOOSE x \in S : \A y \in S : y <= x

Min2(a, b) == IF a <= b THEN a ELSE b

\* the ascending sequence of the k in 1..n for which keep[k]
RECURSIVE Where(_, _)
Where(keep, n) ==
    IF n = 0 THEN <<>>
    ELSE IF keep[n] THEN Append(Where(keep, n - 1), n) ELSE Where(keep, n - 1)

RECURSIVE Flatten(_)
Flatten(ss) == IF ss = <<>> THEN <<>> ELSE Head(ss) \o Flatten(Tail(ss))

---------------------------------------------------------------------------
(* The words of app.py *)

kw_date == <<"d", "a", "t", "e">>
kw_detail == <<"d", "e", "t", "a", "i", "l">>
kw_description == <<"d", "e", "s", "c", "r", "i", "p", "t", "i", "o", "n">>
kw_particular == <<"p", "a", "r", "t", "i", "c", "u", "l", "a", "r">>
kw_credit == <<"c", "r", "e", "d", "i", "t">>
kw_debit == <<"d", "e", "b", "i", "t">>
kw_balance == <<"b", "a", "l", "a", "n", "c", "e">>
kw_amount == <<"a", "m", "o", "u", "n", "t">>
kw_transaction == <<"t", "r", "a", "n", "s", "a", "c", "t", "i", "o", "n">>

banking_keywords ==
    <<kw_date, kw_detail, kw_description, kw_credit, kw_debit, kw_balance,
      kw_amount, kw_transaction>>

Date == <<"D", "a", "t", "e">>
Details == <<"D", "e", "t", "a", "i", "l", "s">>
Credits == <<"C", "r", "e", "d", "i", "t", "s">>
Debits == <<"D", "e", "b", "i", "t", "s">>
Balance == <<"B", "a", "l", "a", "n", "c", "e">>
Amount == <<"A", "m", "o", "u", "n", "t">>

Column_(k) == <<"C", "o", "l", "u", "m", "n", "_">> \o IntText(k)
Extra_(j) == <<"E", "x", "t", "r", "a", "_">> \o IntText(j)

required_columns == <<Date, Details, Credits, Debits, Balance>>

HeaderScanRows == 3
MinKeywords == 2

---------------------------------------------------------------------------
(* DataFrame operations *)

NumCols(d) == Len(d.columns)
NumRows(d) == Len(d.rows)

empty(d) == NumRows(d) = 0 \/ NumCols(d) = 0

Project(row, idxs) == [k \in 1..Len(idxs) |-> row[idxs[k]]]

TakeColumns(d, idxs) ==
    [columns |-> Project(d.columns, idxs),
     rows |-> [r \in 1..NumRows(d) |-> Project(d.rows[r], idxs)]]

RowAllNaN(row) == \A k \in 1..Len(row) : row[k] = NaN

\* df.dropna(how='all'): drops the rows whose cells are all missing values
dropna_rows(d) ==
    [columns |-> d.columns,
     rows |-> SelectSeq(d.rows, LAMBDA row : ~RowAllNaN(row))]

\* df.dropna(axis=1, how='all'): drops the columns whose cells are all missing
dropna_cols(d) ==
    LET keep == [k \in 1..NumCols(d) |->
                    \E r \in 1..NumRows(d) : d.rows[r][k] # NaN]
    IN  TakeColumns(d, Where(keep, NumCols(d)))

\* df[label] = '': a new all-empty column at the end, or an existing one blanked
SetColumnEmpty(d, label) ==
    IF \E k \in 1..NumCols(d) : d.columns[k] = label
    THEN [columns |-> d.columns,
          rows |-> [r \in 1..NumRows(d) |->
                      [k \in 1..NumCols(d) |->
                          IF d.columns[k] = label THEN <<>> ELSE d.rows[r][k]]]]
    ELSE [columns |-> Append(d.columns, label),
          rows |-> [r \in 1..NumRows(d) |-> Append(d.rows[r], <<>>)]]

\* positions of the columns labelled label
Positions(d, label) ==
    Where([k \in 1..NumCols(d) |-> d.columns[k] = label], NumCols(d))

HasDuplicate(d, label) == Len(Positions(d, label)) > 1

\* the value shown by repr for a cell of an object Series
ValueRepr(c) == IF c = NaN THEN <<"N", "a", "N">> ELSE c

\* str(df.iloc[row_idx]): one line per column, the label left-justified and the
\* value right-justified, then the Series' name (the row's index) and dtype
\* (cells are shorter than the width at which repr truncates them)
SeriesRepr(d, row_idx) ==
    LET row == d.rows[row_idx + 1]
        n == NumCols(d)
        lw == Max({Len(d.columns[k]) : k \in 1..n})
        vw == Max({Len(ValueRepr(row[k])) : k \in 1..n})
        line(k) ==
            d.columns[k] \o Spaces(lw - Len(d.columns[k])) \o Spaces(4)
            \o Spaces(vw - Len(ValueRepr(row[k]))) \o ValueRepr(row[k]) \o <<"\n">>
    IN  Flatten([k \in 1..n |-> line(k)])
        \o <<"N", "a", "m", "e", ":", " ">> \o IntText(row_idx)
        \o <<",", " ", "d", "t", "y", "p", "e", ":", " ", "o", "b", "j", "e", "c", "t">>

---------------------------------------------------------------------------
(* process_table, app.py:94-181 *)

None == [isNone |-> TRUE, columns |-> <<>>, rows |-> <<>>]

Returned(d) == [isNone |-> FALSE, columns |-> d.columns, rows |-> d.rows]

\* app.py:101
prune(d) == dropna_cols(dropna_rows(d))

\* app.py:117
row_text(d, row_idx) == join(" ", lower(SeriesRepr(d, row_idx)))

\* app.py:118, the sum over the keywords
keyword_count(text) ==
    Cardinality({k \in 1..Len(banking_keywords) : Contains(banking_keywords[k], text)})

\* app.py:116-121, the loop from row_idx on
RECURSIVE scan_header(_, _)
scan_header(d, row_idx) ==
    IF row_idx >= Min2(HeaderScanRows, NumRows(d))
    THEN [header_detected |-> FALSE, header_row |-> 0]
    ELSE IF keyword_count(row_text(d, row_idx)) >= MinKeywords
         THEN [header_detected |-> TRUE, header_row |-> row_idx]
         ELSE scan_header(d, row_idx + 1)

\* app.py:128-140: the name a header cell gives its column, n names given so far
header_name(col, n) ==
    LET col_str == lower(strip(str(col)))
    IN  IF Contains(kw_date, col_str) THEN Date
        ELSE IF \/ Contains(kw_detail, col_str)
                \/ Contains(kw_description, col_str)
                \/ Contains(kw_particular, col_str) THEN Details
        ELSE IF Contains(kw_credit, col_str) THEN Credits
        ELSE IF Contains(kw_debit, col_str) THEN Debits
        ELSE IF Contains(kw_balance, col_str) THEN Balance
        ELSE Column_(n + 1)

\* app.py:126-140
RECURSIVE new_columns(_, _)
new_columns(hrow, n) ==
    IF n = 0 THEN <<>>
    ELSE Append(new_columns(hrow, n - 1), header_name(hrow[n], n - 1))

\* app.py:142-143
header_mapping(d, hrow) ==
    [columns |-> new_columns(d.rows[hrow + 1], NumCols(d)),
     rows |-> SubSeq(d.rows, hrow + 2, NumRows(d))]

\* the 4-column case names the third column Credits instead of Amount
positional_mapping_amount_as_credits(d) ==
    LET num_cols == NumCols(d)
    IN  IF num_cols >= 5
        THEN [d EXCEPT !.columns =
                 required_columns \o [j \in 1..(num_cols - 5) |-> Extra_(j + 4)]]
        ELSE IF num_cols = 4
        THEN [d EXCEPT !.columns = <<Date, Details, Credits, Balance>>]
        ELSE [d EXCEPT !.columns = [j \in 1..num_cols |-> Column_(j)]]

\* app.py:146-157
positional_mapping(d) ==
    LET num_cols == NumCols(d)
    IN  IF num_cols >= 5
        THEN [d EXCEPT !.columns =
                 required_columns \o [j \in 1..(num_cols - 5) |-> Extra_(j + 4)]]
        ELSE IF num_cols = 4
        THEN SetColumnEmpty(
                 SetColumnEmpty([d EXCEPT !.columns = <<Date, Details, Amount, Balance>>],
                                Credits),
                 Debits)
        ELSE [d EXCEPT !.columns = [j \in 1..num_cols |-> Column_(j)]]

\* app.py:161-163, the loop from the k-th required column on
RECURSIVE ensure_required(_, _)
ensure_required(d, k) ==
    IF k > Len(required_columns) THEN d
    ELSE ensure_required(
             IF \E c \in 1..NumCols(d) : d.columns[c] = required_columns[k]
             THEN d ELSE SetColumnEmpty(d, required_columns[k]),
             k + 1)

\* the selection of app.py:166 is left out
select_required_keeps_all(d) == d

\* app.py:166
select_required(d) ==
    TakeColumns(d, Flatten([k \in 1..Len(required_columns) |->
                               Positions(d, required_columns[k])]))

\* df['Date'] is a DataFrame, not a Series, when two columns are labelled Date:
\* .str then raises AttributeError (app.py:170, and app.py:174 for any label)
raises_on_duplicate(d) ==
    \E k \in 1..Len(required_columns) : HasDuplicate(d, required_columns[k])

\* app.py:170
date_filter(d) ==
    LET p == Positions(d, Date)[1]
    IN  [d EXCEPT !.rows =
            SelectSeq(d.rows, LAMBDA row : strip(str(row[p])) # <<>>)]

\* app.py:174-175
clean_cell(c) ==
    LET s == strip(str(c)) IN IF s = nan_text THEN <<>> ELSE s

\* app.py:173-175
clean_cells(d) ==
    [d EXCEPT !.rows =
        [r \in 1..NumRows(d) |-> [k \in 1..NumCols(d) |-> clean_cell(d.rows[r][k])]]]

\* app.py:169-177
clean_data(d) ==
    IF raises_on_duplicate(d) THEN None
    ELSE LET out == clean_cells(date_filter(dropna_rows(d)))
         IN  IF empty(out) THEN None ELSE Returned(out)

---------------------------------------------------------------------------
(* The raw grids *)

t_TxnDate == <<"T", "x", "n", " ", "D", "a", "t", "e">>
t_Particulars == <<"P", "a", "r", "t", "i", "c", "u", "l", "a", "r", "s">>
t_DebitAmt == <<"D", "e", "b", "i", "t", " ", "A", "m", "t">>
t_CreditAmt == <<"C", "r", "e", "d", "i", "t", " ", "A", "m", "t">>
t_Bal == <<"B", "a", "l">>
t_0101 == <<"0", "1", "/", "0", "1">>
t_Deposit == <<"D", "e", "p", "o", "s", "i", "t">>
t_100 == <<"1", "0", "0">>
t_250 == <<"2", "5", "0">>
t_0201_padded == <<" ", "0", "2", "/", "0", "1", " ">>
t_Fee_padded == <<" ", "F", "e", "e">>
t_5_padded == <<"5", " ">>
t_95_padded == <<" ", "9", "5", " ">>
t_Interest == <<"I", "n", "t", "e", "r", "e", "s", "t">>
t_Total == <<"T", "o", "t", "a", "l">>
t_7 == <<"7">>
t_9 == <<"9">>

\* the rows a grid is made of; a row of c columns is the first c cells,
\* the pattern repeating past its end
RowPatterns ==
    << <<t_TxnDate, t_Particulars, t_DebitAmt, t_CreditAmt, t_Bal>>,
       <<t_0101, t_Deposit, t_100, t_100, t_250>>,
       <<t_0201_padded, t_Fee_padded, t_5_padded, <<>>, t_95_padded>>,
       <<nan_text, t_Interest, NaN, nan_text, t_7>>,
       <<NaN, t_Total, <<>>, NaN, t_9>>,
       <<NaN, NaN, NaN, NaN, NaN>>,
       <<<<>>, <<>>, <<>>, <<>>, <<>>>> >>

MakeRow(kind, c) ==
    [k \in 1..c |-> RowPatterns[kind][((k - 1) % Len(RowPatterns[kind])) + 1]]

\* camelot's table.df: the columns are labelled 0..c-1
MakeGrid(kinds, c) ==
    [columns |-> [k \in 1..c |-> IntText(k - 1)],
     rows |-> [r \in 1..Len(kinds) |-> MakeRow(kinds[r], c)]]

RawGrids ==
    {MakeGrid(kinds, c) :
        kinds \in UNION {[1..n -> 1..Len(RowPatterns)] : n \in 1..MaxRows},
        c \in 1..MaxCols}

---------------------------------------------------------------------------
(* process_table as a state machine *)

BatchIdle ==
    /\ pdf_files = 0
    /\ file_idx = 0
    /\ bpc = "idle"
    /\ status = <<>>
    /\ csv = <<>>
    /\ tables = <<>>
    /\ table_i = 0
    /\ all_data = <<>>
    /\ handled = {}

Init ==
    /\ raw \in RawGrids
    /\ df = raw
    /\ pc = "start"
    /\ header_detected = FALSE
    /\ header_row = 0
    /\ result = None
    /\ pass = 1
    /\ first = None
    /\ BatchIdle

\* app.py:98-107
Prune ==
    /\ pc = "start"
    /\ df' = prune(df)
    /\ IF empty(prune(df))
       THEN pc' = "returned" /\ result' = None
       ELSE pc' = "pruned" /\ UNCHANGED result
    /\ UNCHANGED <<raw, header_detected, header_row, pass, first>>
    /\ UNCHANGED bvars

\* app.py:109-121
DetectHeader ==
    /\ pc = "pruned"
    /\ header_detected' = scan_header(df, 0).header_detected
    /\ header_row' = scan_header(df, 0).header_row
    /\ pc' = "detected"
    /\ UNCHANGED <<raw, df, result, pass, first>>
    /\ UNCHANGED bvars

\* app.py:123-157
SetColumns ==
    /\ pc = "detected"
    /\ df' = IF header_detected THEN header_mapping(df, header_row)
             ELSE positional_mapping(df)
    /\ pc' = "named"
    /\ UNCHANGED <<raw, header_detected, header_row, result, pass, first>>
    /\ UNCHANGED bvars

\* app.py:159-166
SelectRequired ==
    /\ pc = "named"
    /\ df' = select_required(ensure_required(df, 1))
    /\ pc' = "selected"
    /\ UNCHANGED <<raw, header_detected, header_row, result, pass, first>>
    /\ UNCHANGED bvars

\* app.py:168-181
CleanData ==
    /\ pc = "selected"
    /\ result' = clean_data(df)
    /\ df' = IF clean_data(df).isNone THEN df
             ELSE [columns |-> clean_data(df).columns, rows |-> clean_data(df).rows]
    /\ pc' = "returned"
    /\ UNCHANGED <<raw, header_detected, header_row, pass, first>>
    /\ UNCHANGED bvars

\* process_table called again on the table it returned
Refeed ==
    /\ pc = "returned"
    /\ pass = 1
    /\ ~result.isNone
    /\ first' = result
    /\ raw' = [columns |-> result.columns, rows |-> result.rows]
    /\ df' = raw'
    /\ pc' = "start"
    /\ pass' = 2
    /\ header_detected' = FALSE
    /\ header_row' = 0
    /\ result' = None
    /\ UNCHANGED bvars

Next ==
    \/ Prune
    \/ DetectHeader
    \/ SetColumns
    \/ SelectRequired
    \/ CleanData
    \/ Refeed

Spec == Init /\ [][Next]_vars

---------------------------------------------------------------------------
(* parse_bank_statements, app.py:13-92 *)

Terminal == {"Written", "Skipped", "Failed"}

TableIdle ==
    /\ raw = [columns |-> <<>>, rows |-> <<>>]
    /\ df = raw
    /\ pc = "idle"
    /\ header_detected = FALSE
    /\ header_row = 0
    /\ result = None
    /\ pass = 0
    /\ first = None

\* app.py:18-25: glob returned pdf_files files; none: the function returns
BInit ==
    /\ pdf_files \in 0..MaxFiles
    /\ file_idx = 1
    /\ bpc = IF pdf_files = 0 THEN "exit" ELSE "loop"
    /\ status = [f \in 1..pdf_files |-> "Found"]
    /\ csv = [f \in 1..pdf_files |-> "none"]
    /\ tables = [f \in 1..pdf_files |-> 0]
    /\ table_i = 0
    /\ all_data = [f \in 1..pdf_files |-> 0]
    /\ handled = {}
    /\ TableIdle

\* the for loop of app.py:28 takes its next file, or ends
Advance ==
    /\ file_idx' = file_idx + 1
    /\ bpc' = IF file_idx + 1 > pdf_files THEN "exit" ELSE "loop"

Finish(f, how) == status' = [status EXCEPT ![f] = how] /\ Advance

Raise == bpc' = "except" /\ UNCHANGED <<file_idx, status>>

\* app.py:28-31
NextFile ==
    /\ bpc = "loop"
    /\ status' = [status EXCEPT ![file_idx] = "Processing"]
    /\ bpc' = "lattice"
    /\ UNCHANGED <<pdf_files, file_idx, csv, tables, table_i, all_data, handled>>
    /\ UNCHANGED tvars

\* app.py:33: camelot.read_pdf(flavor='lattice') raises or returns n tables
ReadLattice ==
    /\ bpc = "lattice"
    /\ \/ Raise /\ UNCHANGED <<tables, table_i>>
       \/ \E n \in 0..MaxTables :
            /\ tables' = [tables EXCEPT ![file_idx] = n]
            /\ table_i' = 0
            /\ bpc' = IF n = 0 THEN "stream" ELSE "tables"
            /\ UNCHANGED <<file_idx, status>>
    /\ UNCHANGED <<pdf_files, csv, all_data, handled>>
    /\ UNCHANGED tvars

\* app.py:36-47: the stream strategy; no table under either: continue
ReadStream ==
    /\ bpc = "stream"
    /\ \/ Raise /\ UNCHANGED <<tables, table_i>>
       \/ \E n \in 0..MaxTables :
            /\ tables' = [tables EXCEPT ![file_idx] = n]
            /\ table_i' = 0
            /\ IF n = 0
               THEN Finish(file_idx, "Skipped")
               ELSE bpc' = "tables" /\ UNCHANGED <<file_idx, status>>
    /\ UNCHANGED <<pdf_files, csv, all_data, handled>>
    /\ UNCHANGED tvars

\* app.py:50-61, one iteration: the table's df is empty, process_table returns
\* None, or it returns a table that is appended to all_data; table.df may raise
NormalizeTable ==
    /\ bpc = "tables"
    /\ \/ Raise /\ UNCHANGED <<table_i, all_data>>
       \/ \E appended \in BOOLEAN :
            /\ table_i' = table_i + 1
            /\ all_data' = [all_data EXCEPT ![file_idx] = @ + (IF appended THEN 1 ELSE 0)]
            /\ bpc' = IF table_i + 1 = tables[file_idx] THEN "combine" ELSE "tables"
            /\ UNCHANGED <<file_idx, status>>
    /\ UNCHANGED <<pdf_files, csv, tables, handled>>
    /\ UNCHANGED tvars

\* app.py:79: to_csv writes the file, raises before it creates the file, or
\* raises after it created it
WriteOutcomes == {"written", "raised_before_create", "raised_after_create"}

\* the test of app.py:64 is left out: the CSV is written whatever all_data holds
Combine_Unguarded ==
    /\ bpc = "combine"
    /\ \E w \in WriteOutcomes :
          /\ csv' = [csv EXCEPT ![file_idx] =
                       CASE w = "written" -> "complete"
                         [] w = "raised_after_create" -> "partial"
                         [] OTHER -> @]
          /\ IF w = "written"
             THEN bpc' = "report" /\ UNCHANGED <<file_idx, status>>
             ELSE Raise
    /\ UNCHANGED <<pdf_files, tables, table_i, all_data, handled>>
    /\ UNCHANGED tvars

\* app.py:64-79 and 88-89
Combine ==
    /\ bpc = "combine"
    /\ IF all_data[file_idx] > 0
       THEN \E w \in WriteOutcomes :
              /\ csv' = [csv EXCEPT ![file_idx] =
                           CASE w = "written" -> "complete"
                             [] w = "raised_after_create" -> "partial"
                             [] OTHER -> @]
              /\ IF w = "written"
                 THEN bpc' = "report" /\ UNCHANGED <<file_idx, status>>
                 ELSE Raise
       ELSE Finish(file_idx, "Skipped") /\ UNCHANGED csv
    /\ UNCHANGED <<pdf_files, tables, table_i, all_data, handled>>
    /\ UNCHANGED tvars

\* app.py:80-86: the success summary and the preview; head().to_string() or a
\* print may raise
Report ==
    /\ bpc = "report"
    /\ \/ Finish(file_idx, "Written")
       \/ Raise
    /\ UNCHANGED <<pdf_files, csv, tables, table_i, all_data, handled>>
    /\ UNCHANGED tvars

\* the except clause is left out: the exception leaves the for loop
HandleException_Propagates ==
    /\ bpc = "except"
    /\ bpc' = "exit"
    /\ UNCHANGED <<pdf_files, file_idx, status, csv, tables, table_i, all_data, handled>>
    /\ UNCHANGED tvars

\* app.py:91-92
HandleException ==
    /\ bpc = "except"
    /\ handled' = handled \cup {file_idx}
    /\ Finish(file_idx, "Failed")
    /\ UNCHANGED <<pdf_files, csv, tables, table_i, all_data>>
    /\ UNCHANGED tvars

BNext ==
    \/ NextFile
    \/ ReadLattice
    \/ ReadStream
    \/ NormalizeTable
    \/ Combine
    \/ Report
    \/ HandleException

BatchSpec == BInit /\ [][BNext]_vars

\* the driver is one sequential thread: while a step is possible it is taken
BatchFairSpec == BInit /\ [][BNext]_vars /\ WF_vars(BNext)

---------------------------------------------------------------------------
(* What the claims speak of *)

ReturnedTable == pc = "returned" /\ ~result.isNone

\* a cell with its leading and trailing whitespace removed, the missing value
\* and the text "nan" read as the empty string
Trimmed(c) ==
    IF c = NaN \/ strip(c) = nan_text THEN <<>> ELSE strip(c)

\* a cell that is the empty string or a missing value
EmptyCell(c) == c = <<>> \/ c = NaN

\* the score the header detection is described by: the keywords that occur in
\* the row's lower-cased cell text
RECURSIVE CellText(_)
CellText(row) ==
    IF row = <<>> THEN <<>>
    ELSE lower(str(Head(row))) \o <<" ">> \o CellText(Tail(row))

KeywordScore(row) ==
    Cardinality({k \in 1..Len(banking_keywords) :
                    Contains(banking_keywords[k], CellText(row))})

Qualifies(d, i) == i < NumRows(d) /\ KeywordScore(d.rows[i + 1]) >= MinKeywords

TxnHeaderGrid ==
    /\ pass = 1
    /\ NumCols(raw) = 5
    /\ raw.rows[1] = <<t_TxnDate, t_Particulars, t_DebitAmt, t_CreditAmt, t_Bal>>

FourColumnGrid == pass = 1 /\ NumCols(raw) = 4

ScenarioGrid ==
    /\ pass = 1
    /\ raw.rows = << <<t_0101, t_Deposit, t_100, t_100>> >>

---------------------------------------------------------------------------
(* The claims *)

\* C1: whenever process_table returns a non-empty table, its columns are
\* exactly Date, Details, Credits, Debits, Balance, each once and in that
\* order, and every row has these five cells.
C1_FiveCanonicalColumns ==
    ReturnedTable =>
        /\ result.columns = <<Date, Details, Credits, Debits, Balance>>
        /\ \A r \in 1..Len(result.rows) : Len(result.rows[r]) = 5

\* C1 witness: a table was returned for a grid of several rows and more than
\* five columns (the extra columns discarded).
C1_Witness ==
    ReturnedTable /\ pass = 1 /\ NumCols(raw) > 5 /\ NumRows(raw) > 1

\* C2 (as claimed): no row of the returned table has an empty Date.
C2_NoEmptyDate ==
    ReturnedTable => \A r \in 1..Len(result.rows) : result.rows[r][1] # <<>>

\* C6 (as claimed): a grid headed by "Txn Date", "Particulars", "Debit Amt",
\* "Credit Amt", "Bal" has that row detected as its header, and every output row
\* carries a data row's third cell under Debits, fourth under Credits and fifth
\* under Balance.
C6_TxnHeaderMapping ==
    (TxnHeaderGrid /\ pc = "returned") =>
        /\ header_detected
        /\ \A r \in 1..Len(result.rows) :
              \E i \in 2..NumRows(raw) :
                 result.rows[r] =
                    <<Trimmed(raw.rows[i][1]), Trimmed(raw.rows[i][2]),
                      Trimmed(raw.rows[i][4]), Trimmed(raw.rows[i][3]),
                      Trimmed(raw.rows[i][5])>>

C8_Idempotent ==
    (pass = 2 /\ pc = "returned") => result = first

\* C9 (as claimed): when one of the first 3 rows contains at least 2 keywords in
\* its lower-cased cell text, the header is detected and it is the first such
\* row; the rows up to and including it are then dropped.
C9_HeaderDetected ==
    (pass = 1 /\ pc = "detected" /\
     \E i \in 0..(HeaderScanRows - 1) : Qualifies(df, i)) =>
        /\ header_detected
        /\ Qualifies(df, header_row)
        /\ \A i \in 0..(header_row - 1) : ~Qualifies(df, i)

\* C10 (as claimed): after pruning, no row and no column of the grid consists
\* only of empty cells (empty strings or missing values).
C10_NoEmptyRowOrColumn ==
    (pass = 1 /\ pc = "pruned") =>
        /\ \A r \in 1..NumRows(df) : \E k \in 1..NumCols(df) : ~EmptyCell(df.rows[r][k])
        /\ \A k \in 1..NumCols(df) : \E r \in 1..NumRows(df) : ~EmptyCell(df.rows[r][k])

\* C3: every file of the list reaches a terminal state, whatever happens at
\* each file, and the files are processed one at a time in list order: a file
\* is taken up only when all the files before it are terminal.
C3_InListOrder ==
    /\ \A f \in 1..pdf_files :
          status[f] # "Found" => \A g \in 1..(f - 1) : status[g] \in Terminal
    /\ Cardinality({f \in 1..pdf_files : status[f] = "Processing"}) <= 1

C3_EveryFileTerminates ==
    /\ []C3_InListOrder
    /\ \A f \in 1..MaxFiles :
          <>[](f <= pdf_files => status[f] \in Terminal)

\* C3 witness: the first file failed, the second was skipped, and the loop ended.
C3_Witness ==
    /\ pdf_files >= 2
    /\ status[1] = "Failed"
    /\ status[2] = "Skipped"
    /\ bpc = "exit"

\* C4: a CSV exists for a file only if extraction found a table in it and at
\* least one of its tables normalised to a non-empty table.
C4_CsvOnlyWithData ==
    \A f \in 1..pdf_files :
       csv[f] # "none" => tables[f] > 0 /\ all_data[f] > 0

\* C4 witness: one file without tables and one whose tables all normalised to
\* empty were skipped without a CSV, and a third file's CSV was written.
C4_Witness ==
    /\ \E f \in 1..pdf_files :
          status[f] = "Skipped" /\ tables[f] = 0 /\ csv[f] = "none"
    /\ \E f \in 1..pdf_files :
          status[f] = "Skipped" /\ tables[f] > 0 /\ csv[f] = "none"
    /\ \E f \in 1..pdf_files : status[f] = "Written" /\ csv[f] = "complete"

\* C5 (as claimed): no CSV exists for a file the exception handler ran for.
C5_NoCsvForFailedFile ==
    \A f \in handled : csv[f] = "none"

====
